---------------------------- MODULE Spec2Model ----------------------------
(***************************************************************************)
(* Temperature simulator (src/app.js): the rolling sample buffer, the      *)
(* threshold classifier, the display update and the update timer.          *)
(*                                                                         *)
(* Numbers.  A temperature is an integer number of thousandths of a degree *)
(* (Deg(35) = 35000 is 35.0 degrees), and a value returned by              *)
(* Math.random() is an integer number of thousandths in 0..999, so that    *)
(* (Math.random() - 0.5) * 20 degrees is (r - 500) * 20 thousandths.       *)
(*                                                                         *)
(* Strings.  The status texts of the source are Chinese; they are written  *)
(* here in pinyin: "weixian" (danger), "jinggao" (warning), "zhengchang"   *)
(* (normal), "gaowen jinggao" (high-temperature warning), "diwen jinggao"  *)
(* (low-temperature warning).                                              *)
(***************************************************************************)
EXTENDS Integers, Sequences, FiniteSets

(***************************************************************************)
(* Bounds of the model.                                                    *)
(***************************************************************************)
\* CONFIG.SIMULATION.DATA_POINTS is 50 in the source (line 40); the model
\* keeps the buffer logic and runs it with a small capacity.
DATA_POINTS == 3
\* Ticks stop once the newest sample carries this index (the counter is
\* unbounded in the source).
MaxIndex == 7
\* Number of timer handles the host can have allocated at once.
MaxTimers == 2

(***************************************************************************)
(* CONFIG (src/app.js lines 8-44).                                         *)
(***************************************************************************)
Deg(d) == d * 1000

MIN == Deg(10)
MAX == Deg(50)
SAFE_MAX == Deg(30)
WARNING_MAX == Deg(35)
DANGER_MIN == Deg(35)

COLOR_NORMAL == "#4CAF50"
COLOR_WARNING == "#FFC107"
COLOR_DANGER == "#F44336"

TEMP_VARIATION == 4

\* The values Math.random() returns, in thousandths: a subset of [0, 1).
RandomValues == {0, 999}

\* canvas.offsetWidth as the page lays the canvas out.
OffsetWidths == {400, 800}

VARIABLES
    phase,               \* "loading" | "running" | "failed": where initApp is
    canvas,              \* "ok" | "noctx" | "missing": the #temperatureChart element
    canvasWidth,         \* canvas.width
    temperatureData,     \* the buffer: a sequence of [index, temperature]
    currentTemperature,
    chartInterval,       \* 0 is null, otherwise the handle setInterval returned
    activeTimers,        \* the handles of the intervals the host will still fire
    display,             \* the text/colour slots and the status indicator
    surface,             \* what the canvas shows
    errorNotices,        \* error notices displayError has put on the page
    lastOp,              \* history: the handler that ran last
    indexHighWater,      \* history: the largest index ever given to a sample
    epochHighWater,      \* history: the largest index given since the buffer was last generated
    advances,            \* history: the ticks since the buffer was last generated
    probeTemp,           \* classifier probe: the input
    probeResult          \* classifier probe: the outputs

vars == <<phase, canvas, canvasWidth, temperatureData, currentTemperature,
          chartInterval, activeTimers, display, surface, errorNotices,
          lastOp, indexHighWater, epochHighWater, advances,
          probeTemp, probeResult>>

appVars == <<phase, canvas, canvasWidth, temperatureData, currentTemperature,
             chartInterval, activeTimers, display, surface, errorNotices,
             lastOp, indexHighWater, epochHighWater, advances>>

historyVars == <<indexHighWater, epochHighWater, advances>>

probeVars == <<probeTemp, probeResult>>

(***************************************************************************)
(* Helpers.                                                                *)
(***************************************************************************)
Max2(a, b) == IF a >= b THEN a ELSE b
Min2(a, b) == IF a <= b THEN a ELSE b

\* Faulty variant: Math.max(MIN, .) left out.
ClampNoLowerBound(temp) == Min2(MAX, temp)

\* Math.max(MIN, Math.min(MAX, temp))
Clamp(temp) == Max2(MIN, Min2(MAX, temp))

Last(s) == s[Len(s)]

\* Number.prototype.toFixed(1): the value in tenths of a degree, rounded.
ToFixed1(t) == (t + 50) \div 100

(***************************************************************************)
(* Classifier (src/app.js lines 229-252).                                  *)
(***************************************************************************)
\* Faulty variant: >= in place of > at DANGER_MIN.
getTemperatureColorInclusive(temperature) ==
    IF temperature >= DANGER_MIN THEN COLOR_DANGER
    ELSE IF temperature >= SAFE_MAX THEN COLOR_WARNING
    ELSE COLOR_NORMAL

getTemperatureColor(temperature) ==
    IF temperature > DANGER_MIN THEN COLOR_DANGER
    ELSE IF temperature >= SAFE_MAX THEN COLOR_WARNING
    ELSE COLOR_NORMAL

\* Faulty variant: > in place of >= at SAFE_MAX.
getTemperatureStatusStrictWarning(temperature) ==
    IF temperature > DANGER_MIN THEN "weixian"
    ELSE IF temperature > SAFE_MAX THEN "jinggao"
    ELSE "zhengchang"

getTemperatureStatus(temperature) ==
    IF temperature > DANGER_MIN THEN "weixian"
    ELSE IF temperature >= SAFE_MAX THEN "jinggao"
    ELSE "zhengchang"

(***************************************************************************)
(* Display (src/app.js lines 538-582).  The elements #currentTemperature,  *)
(* #temperatureStatus and #statusIndicator are taken to be on the page.    *)
(***************************************************************************)
\* The className the switch of updateStatusIndicator assigns.
updateStatusIndicator(status) ==
    [text |-> status,
     className |->
        CASE status = "weixian" -> "status-indicator danger"
          [] status \in {"gaowen jinggao", "diwen jinggao"} -> "status-indicator warning"
          [] OTHER -> "status-indicator normal"]

updateTemperatureDisplay(temperature) ==
    LET status == getTemperatureStatus(temperature)
    IN  [tempText    |-> ToFixed1(temperature),
         tempColor   |-> getTemperatureColor(temperature),
         statusText  |-> status,
         statusColor |-> getTemperatureColor(temperature),
         indicator   |-> updateStatusIndicator(status)]

\* The slots before the first update: whatever the page holds.
BlankDisplay ==
    [tempText    |-> 0 - 1,
     tempColor   |-> "",
     statusText  |-> "",
     statusColor |-> "",
     indicator   |-> [text |-> "", className |-> ""]]

(***************************************************************************)
(* Rendering (src/app.js lines 257-533).  The surface is the canvas: what  *)
(* its bitmap shows (the samples of the curve, the colour of its stroke,   *)
(* and for every layer the context settings it was drawn with) and the     *)
(* settings its 2D context is left with.  Line widths are written as the   *)
(* source writes them.                                                     *)
(***************************************************************************)
COLOR_GRID == "#E0E0E0"
COLOR_AXIS == "#333333"
COLOR_TEXT == "#666666"
COLOR_BACKGROUND == "#FFFFFF"

\* The settings of a 2D context that is new or whose canvas has just been
\* given a width (lines 65, 613).
DefaultContext ==
    [fillStyle    |-> "#000000",
     strokeStyle  |-> "#000000",
     lineWidth    |-> "1",
     lineCap      |-> "butt",
     lineJoin     |-> "miter",
     font         |-> "10px sans-serif",
     textAlign    |-> "start",
     textBaseline |-> "alphabetic"]

\* F(x), with x worked out once: the statements of a function body run one
\* after the other, each on what the one before it has left.
Then(x, F(_)) == CHOOSE result \in {F(value) : value \in {x}} : TRUE

\* What ctx.stroke() of one straight segment, ctx.stroke() of a path with
\* joins, ctx.fill() and ctx.fillText() take from the context.
StrokeOfSegment(c) ==
    Then(c, LAMBDA v : [style |-> v.strokeStyle, width |-> v.lineWidth,
                        cap |-> v.lineCap])
StrokeOfPath(c) ==
    Then(c, LAMBDA v : [style |-> v.strokeStyle, width |-> v.lineWidth,
                        cap |-> v.lineCap, join |-> v.lineJoin])
FillOf(c) == [style |-> c.fillStyle]
TextOf(c) ==
    Then(c, LAMBDA v : [style |-> v.fillStyle, font |-> v.font,
                        align |-> v.textAlign, baseline |-> v.textBaseline])

NoLayers == [background |-> << >>, grid |-> << >>, axes |-> << >>, curve |-> << >>,
             legend |-> << >>]

BlankSurface ==
    [painted |-> FALSE, width |-> 0, curve |-> << >>, strokeColor |-> "",
     layers |-> NoLayers, context |-> DefaultContext]

\* Each drawing function below gives the layer it paints and the context
\* it leaves, from the context c it is entered with.

\* drawBackground, lines 303-306
drawBackground(c) ==
    LET c1 == [c EXCEPT !.fillStyle = COLOR_BACKGROUND]
    IN  [layer |-> <<FillOf(c1)>>, context |-> c1]

\* drawGrid, lines 311-336: every line is stroked with the same settings
drawGrid(c) ==
    LET c1 == [c EXCEPT !.strokeStyle = COLOR_GRID, !.lineWidth = "0.5"]
    IN  [layer |-> <<StrokeOfSegment(c1)>>, context |-> c1]

\* drawAxes, lines 341-414: the two axis lines, the time labels (there are
\* some when the buffer holds a sample), the temperature labels, the two
\* titles; save/restore of lines 409-413 leaves the settings as they were.
drawAxes(c, data) ==
    LET c1 == [c EXCEPT !.strokeStyle = COLOR_AXIS, !.lineWidth = "1",
                        !.fillStyle = COLOR_TEXT, !.font = "12px Arial",
                        !.textAlign = "center", !.textBaseline = "top"]
        c2 == [c1 EXCEPT !.textAlign = "right", !.textBaseline = "middle"]
        c3 == [c2 EXCEPT !.textAlign = "center", !.font = "14px Arial"]
    IN  [layer |-> <<StrokeOfSegment(c1)>>
                    \o (IF Len(data) > 0 THEN <<TextOf(c1)>> ELSE << >>)
                    \o <<TextOf(c2), TextOf(c3)>>,
         context |-> c3]

\* drawTemperatureCurve, lines 419-501: nothing with fewer than two
\* samples; otherwise the curve, the marker of the last point (filled and
\* stroked) and the text of its value.
drawTemperatureCurve(c, data, temperature) ==
    IF Len(data) < 2 THEN [layer |-> << >>, context |-> c]
    ELSE
    LET c1 == [c EXCEPT !.lineWidth = "2", !.lineJoin = "round", !.lineCap = "round"]
        c2 == [c1 EXCEPT !.strokeStyle = getTemperatureColor(temperature)]
        c3 == [c2 EXCEPT !.fillStyle = getTemperatureColor(Last(data).temperature)]
        c4 == [c3 EXCEPT !.strokeStyle = getTemperatureColor(Last(data).temperature),
                         !.lineWidth = "2"]
        c5 == [c4 EXCEPT !.font = "bold 16px Arial", !.fillStyle = COLOR_TEXT,
                         !.textAlign = "left", !.textBaseline = "bottom"]
    IN  [layer |-> <<StrokeOfPath(c2), FillOf(c3), StrokeOfPath(c4), TextOf(c5)>>,
         context |-> c5]

\* drawLegend, lines 506-533: three swatches, three labels
drawLegend(c) ==
    LET c1 == [c EXCEPT !.font = "12px Arial", !.textAlign = "left",
                        !.textBaseline = "middle"]
        swatch(col) == FillOf([c1 EXCEPT !.fillStyle = col])
        label == TextOf([c1 EXCEPT !.fillStyle = COLOR_TEXT])
    IN  [layer |-> <<swatch(COLOR_NORMAL), label, swatch(COLOR_WARNING), label,
                     swatch(COLOR_DANGER), label>>,
         context |-> [c1 EXCEPT !.fillStyle = COLOR_TEXT]]

\* drawChart, lines 257-298, on the canvas old: a missing canvas or 2D
\* context throws inside the try and is caught, nothing is drawn.
drawChart(cv, width, data, temperature, old) ==
    IF cv # "ok" THEN old
    ELSE
    Then(drawBackground(old.context), LAMBDA bg :
    Then(drawGrid(bg.context), LAMBDA grid :
    Then(drawAxes(grid.context, data), LAMBDA axes :
    Then(drawTemperatureCurve(axes.context, data, temperature), LAMBDA curve :
    Then(drawLegend(curve.context), LAMBDA legend :
        [painted     |-> TRUE,
         width       |-> width,
         curve       |-> IF Len(data) < 2 THEN << >> ELSE data,
         strokeColor |-> IF Len(data) < 2 THEN ""
                         ELSE getTemperatureColor(temperature),
         layers      |-> [background |-> bg.layer, grid |-> grid.layer,
                          axes |-> axes.layer, curve |-> curve.layer,
                          legend |-> legend.layer],
         context     |-> legend.context])))))

(***************************************************************************)
(* Coordinates (lines 272-278, 422-437).  The source computes them as      *)
(* fractions of a pixel; here a y coordinate is counted in units of        *)
(* 1/(MAX - MIN) pixel and an x coordinate of a buffer in units of         *)
(* 1/indexRange pixel, so that both stay exact integers.                   *)
(***************************************************************************)
CANVAS_HEIGHT == 400
PADDING_TOP == 20
PADDING_RIGHT == 80
PADDING_BOTTOM == 50
PADDING_LEFT == 60

\* chartArea, lines 273-278
ChartArea(width) ==
    [x      |-> PADDING_LEFT,
     y      |-> PADDING_TOP,
     width  |-> width - PADDING_LEFT - PADDING_RIGHT,
     height |-> CANVAS_HEIGHT - PADDING_TOP - PADDING_BOTTOM]

\* A whole number of pixels in the units of tempToY
YUnits(pixels) == pixels * (MAX - MIN)

\* Faulty variant: the axis is not inverted.
tempToYNotInverted(chartArea, temp) ==
    YUnits(chartArea.y) + (temp - MIN) * chartArea.height

\* tempToY, lines 423-427
tempToY(chartArea, temp) ==
    YUnits(chartArea.y + chartArea.height) - (temp - MIN) * chartArea.height

\* indexRange, lines 430-432
indexRange(data) == Max2(Last(data).index - data[1].index, DATA_POINTS - 1)

\* A whole number of pixels in the units of indexToX
XUnits(data, pixels) == pixels * indexRange(data)

\* Faulty variant: the first buffered index is not subtracted.
indexToXFromZero(chartArea, data, index) ==
    XUnits(data, chartArea.x) + index * chartArea.width

\* indexToX, lines 434-437
indexToX(chartArea, data, index) ==
    XUnits(data, chartArea.x) + (index - data[1].index) * chartArea.width

\* Faulty variant: the errors of lines 261 and 266 leave drawChart.
drawChartThrowsUncaught(cv) == cv # "ok"

\* Whether an exception leaves drawChart: the try of line 258 encloses the
\* whole body and the catch of line 295 logs and returns.
drawChartThrows(cv) == FALSE

(***************************************************************************)
(* The sample buffer (src/app.js lines 144-211).                           *)
(***************************************************************************)
Sample(i, t) == [index |-> i, temperature |-> t]

\* Faulty variant: the buffer is not emptied first (line 145 left out).
generateInitialDataKeepOld(old, rb, rf) ==
    LET baseTemp == Deg(20) + rb * 8
    IN  old \o [k \in 1..DATA_POINTS |->
                  Sample(k - 1, Clamp(baseTemp + (rf[k] - 500) * TEMP_VARIATION))]

\* generateInitialData on the buffer old, with rb the first value of
\* Math.random() (the base temperature) and rf[k] the value drawn for the
\* k-th sample.  Line 145 discards old.
generateInitialData(old, rb, rf) ==
    LET baseTemp == Deg(20) + rb * 8
    IN  [k \in 1..DATA_POINTS |->
            Sample(k - 1, Clamp(baseTemp + (rf[k] - 500) * TEMP_VARIATION))]

\* Faulty variants: the cooling branch is taken for r1 < 0.07; the elevated
\* regime takes the step of the normal one.
newTempRarelyCools(temperature, r1, r2) ==
    IF temperature > Deg(35)
    THEN IF r1 < 70
         THEN temperature - r2 * 10
         ELSE temperature + (r2 - 500) * 10
    ELSE temperature + (r2 - 500) * 20
newTempOneRegime(temperature, r1, r2) == temperature + (r2 - 500) * 20

\* The raw next value of updateTemperatureData (lines 174-187): r1 is the
\* draw that picks the branch, r2 the draw that sets the amount.
newTemp(temperature, r1, r2) ==
    IF temperature > Deg(35)
    THEN IF r1 < 700
         THEN temperature - r2 * 10
         ELSE temperature + (r2 - 500) * 10
    ELSE temperature + (r2 - 500) * 20

\* Faulty variants: the buffer length as the index; the head's index plus one.
nextIndexByLength(data) == Len(data)
nextIndexFromFirst(data) == IF Len(data) > 0 THEN data[1].index + 1 ELSE 0

\* nextIndex, lines 194-196
nextIndex(data) == IF Len(data) > 0 THEN Last(data).index + 1 ELSE 0

\* Faulty variant: on a full buffer the new sample is the one dropped.
pushAndShiftNewest(data, sample) ==
    IF Len(data) + 1 > DATA_POINTS THEN data ELSE Append(data, sample)

\* lines 199-208: push, then shift when over capacity
pushAndShift(data, sample) ==
    LET pushed == Append(data, sample)
    IN  IF Len(pushed) > DATA_POINTS THEN Tail(pushed) ELSE pushed

(***************************************************************************)
(* The timer (src/app.js lines 587-605).  A timer state is the pair of the *)
(* handle variable and the set of intervals the host keeps firing.         *)
(***************************************************************************)
\* setInterval: the handle of the new interval, one no live interval has.
FreeHandles(active) == (1..MaxTimers) \ active
HostHasHandle(active) == Cardinality(active) < MaxTimers
setInterval(active) ==
    CHOOSE h \in FreeHandles(active) : \A g \in FreeHandles(active) : h <= g

\* Faulty variant: no clearInterval of the live interval.
startDataUpdateNoClear(handle, active) ==
    LET h == setInterval(active)
    IN  [chartInterval |-> h, activeTimers |-> active \cup {h}]

startDataUpdate(handle, active) ==
    LET cleared == IF handle # 0 THEN active \ {handle} ELSE active
        h == setInterval(cleared)
    IN  [chartInterval |-> h, activeTimers |-> cleared \cup {h}]

\* Faulty variant: the handle is forgotten without clearInterval.
stopDataUpdateKeepsInterval(handle, active) ==
    [chartInterval |-> 0, activeTimers |-> active]

\* stopDataUpdate, lines 600-605
stopDataUpdate(handle, active) ==
    IF handle # 0
    THEN [chartInterval |-> 0, activeTimers |-> active \ {handle}]
    ELSE [chartInterval |-> handle, activeTimers |-> active]

(***************************************************************************)
(* updateTemperatureData, the store part (src/app.js lines 172-211): the   *)
(* new buffer and the new currentTemperature.  The timestamp of a sample   *)
(* is read by the axis labels alone and is left out.                       *)
(***************************************************************************)
\* Faulty variant: currentTemperature takes newTemp, not clampedTemp.
advanceRawCurrent(data, temperature, r1, r2) ==
    LET raw == newTemp(temperature, r1, r2)
    IN  [temperatureData    |-> pushAndShift(data, Sample(nextIndex(data), Clamp(raw))),
         currentTemperature |-> raw]

advance(data, temperature, r1, r2) ==
    LET clampedTemp == Clamp(newTemp(temperature, r1, r2))
    IN  [temperatureData    |-> pushAndShift(data, Sample(nextIndex(data), clampedTemp)),
         currentTemperature |-> clampedTemp]

(***************************************************************************)
(* Initial state: the globals of lines 47-49, before initApp has run.      *)
(***************************************************************************)
NoResult == [color |-> "", status |-> ""]

InitApplication ==
    /\ phase = "loading"
    /\ canvas \in {"ok", "noctx", "missing"}
    /\ canvasWidth = 0
    /\ temperatureData = << >>
    /\ chartInterval = 0
    /\ currentTemperature = Deg(20)
    /\ activeTimers = {}
    /\ display = BlankDisplay
    /\ surface = BlankSurface
    /\ errorNotices = 0
    /\ lastOp = "none"
    /\ indexHighWater = 0 - 1
    /\ epochHighWater = 0 - 1
    /\ advances = 0

Init ==
    /\ InitApplication
    /\ probeTemp = MIN
    /\ probeResult = NoResult

(***************************************************************************)
(* Handlers.                                                               *)
(***************************************************************************)
\* initApp with the canvas on the page (lines 54-89).
InitApp ==
    /\ phase = "loading"
    /\ canvas # "missing"
    /\ HostHasHandle(activeTimers)
    /\ \E w \in OffsetWidths, rb \in RandomValues, rf \in [1..DATA_POINTS -> RandomValues] :
          LET data  == generateInitialData(temperatureData, rb, rf)
              cur   == Last(data).temperature
              timer == startDataUpdate(chartInterval, activeTimers)
              \* an exception of line 72 would skip lines 75-89 (catch, line 90)
              thrown == drawChartThrows(canvas)
          IN  /\ canvasWidth' = w
              /\ temperatureData' = data
              /\ currentTemperature' = cur
              /\ surface' = drawChart(canvas, w, data, cur, BlankSurface)
              /\ display' = IF thrown THEN display ELSE updateTemperatureDisplay(cur)
              /\ chartInterval' = IF thrown THEN chartInterval ELSE timer.chartInterval
              /\ activeTimers' = IF thrown THEN activeTimers ELSE timer.activeTimers
              /\ errorNotices' = IF thrown THEN errorNotices + 1 ELSE errorNotices
              /\ phase' = IF thrown THEN "failed" ELSE "running"
              /\ indexHighWater' = Max2(indexHighWater, Last(data).index)
              /\ epochHighWater' = Last(data).index
              /\ advances' = 0
    /\ lastOp' = "init"
    /\ UNCHANGED <<canvas, probeVars>>

\* Faulty variant: after the notice initApp is scheduled again.
InitAppFailsRetries ==
    /\ phase = "loading"
    /\ canvas = "missing"
    /\ phase' = "loading"
    /\ errorNotices' = errorNotices + 1
    /\ lastOp' = "initFailed"
    /\ UNCHANGED <<canvas, canvasWidth, temperatureData, currentTemperature,
                   chartInterval, activeTimers, display, surface, historyVars, probeVars>>

\* initApp without the canvas: the throw of line 61, caught at line 90.
InitAppFails ==
    /\ phase = "loading"
    /\ canvas = "missing"
    /\ phase' = "failed"
    /\ errorNotices' = errorNotices + 1
    /\ lastOp' = "initFailed"
    /\ UNCHANGED <<canvas, canvasWidth, temperatureData, currentTemperature,
                   chartInterval, activeTimers, display, surface, historyVars, probeVars>>

\* The setTimeout callback of displayError (lines 642-646).
DismissError ==
    /\ errorNotices > 0
    /\ errorNotices' = errorNotices - 1
    /\ lastOp' = "dismiss"
    /\ UNCHANGED <<phase, canvas, canvasWidth, temperatureData, currentTemperature,
                   chartInterval, activeTimers, display, surface, historyVars, probeVars>>

\* Faulty variant: the display is updated before the store is advanced.
TickDisplaysBeforeAdvance ==
    /\ activeTimers # {}
    /\ nextIndex(temperatureData) <= MaxIndex
    /\ \E r1 \in RandomValues, r2 \in RandomValues :
          LET next == advance(temperatureData, currentTemperature, r1, r2)
          IN  /\ temperatureData' = next.temperatureData
              /\ currentTemperature' = next.currentTemperature
              /\ surface' = drawChart(canvas, canvasWidth, next.temperatureData,
                                      next.currentTemperature, surface)
              /\ display' = updateTemperatureDisplay(currentTemperature)
              /\ indexHighWater' =
                    Max2(indexHighWater, Last(next.temperatureData).index)
              /\ epochHighWater' =
                    Max2(epochHighWater, Last(next.temperatureData).index)
              /\ advances' = advances + 1
    /\ lastOp' = "tick"
    /\ UNCHANGED <<phase, canvas, canvasWidth, chartInterval, activeTimers,
                   errorNotices, probeVars>>

\* One firing of an interval the host still holds: updateTemperatureData
\* (lines 168-222).
Tick ==
    /\ activeTimers # {}
    /\ nextIndex(temperatureData) <= MaxIndex
    /\ \E r1 \in RandomValues, r2 \in RandomValues :
          LET next == advance(temperatureData, currentTemperature, r1, r2)
          IN  /\ temperatureData' = next.temperatureData
              /\ currentTemperature' = next.currentTemperature
              /\ surface' = drawChart(canvas, canvasWidth, next.temperatureData,
                                      next.currentTemperature, surface)
              \* an exception of line 214 would skip line 217 (catch, line 219)
              /\ display' = IF drawChartThrows(canvas) THEN display
                            ELSE updateTemperatureDisplay(next.currentTemperature)
              /\ indexHighWater' =
                    Max2(indexHighWater, Last(next.temperatureData).index)
              /\ epochHighWater' =
                    Max2(epochHighWater, Last(next.temperatureData).index)
              /\ advances' = advances + 1
    /\ lastOp' = "tick"
    /\ UNCHANGED <<phase, canvas, canvasWidth, chartInterval, activeTimers,
                   errorNotices, probeVars>>

\* The click listeners of setupEventListeners (lines 99-124) exist once
\* initApp has reached line 84.
ClickStart ==
    /\ phase = "running"
    /\ HostHasHandle(activeTimers)
    /\ LET timer == startDataUpdate(chartInterval, activeTimers)
       IN  /\ chartInterval' = timer.chartInterval
           /\ activeTimers' = timer.activeTimers
    /\ lastOp' = IF chartInterval # 0 THEN "restart" ELSE "start"
    /\ UNCHANGED <<phase, canvas, canvasWidth, temperatureData, currentTemperature,
                   display, surface, errorNotices, historyVars, probeVars>>

ClickPause ==
    /\ phase = "running"
    /\ LET timer == stopDataUpdate(chartInterval, activeTimers)
       IN  /\ chartInterval' = timer.chartInterval
           /\ activeTimers' = timer.activeTimers
    /\ lastOp' = IF chartInterval # 0 THEN "pause" ELSE "pauseIdle"
    /\ UNCHANGED <<phase, canvas, canvasWidth, temperatureData, currentTemperature,
                   display, surface, errorNotices, historyVars, probeVars>>

\* resetSimulation (lines 652-663).
ClickReset ==
    /\ phase = "running"
    /\ HostHasHandle(activeTimers)
    /\ \E rb \in RandomValues, rf \in [1..DATA_POINTS -> RandomValues] :
          LET stopped == stopDataUpdate(chartInterval, activeTimers)
              data    == generateInitialData(temperatureData, rb, rf)
              cur     == Last(data).temperature
              timer   == startDataUpdate(stopped.chartInterval, stopped.activeTimers)
              \* an exception of line 656 would skip lines 657-658 (catch, line 659)
              thrown  == drawChartThrows(canvas)
          IN  /\ temperatureData' = data
              /\ currentTemperature' = cur
              /\ surface' = drawChart(canvas, canvasWidth, data, cur, surface)
              /\ display' = IF thrown THEN display ELSE updateTemperatureDisplay(cur)
              /\ chartInterval' =
                    IF thrown THEN stopped.chartInterval ELSE timer.chartInterval
              /\ activeTimers' =
                    IF thrown THEN stopped.activeTimers ELSE timer.activeTimers
              /\ errorNotices' = IF thrown THEN errorNotices + 1 ELSE errorNotices
              /\ indexHighWater' = Max2(indexHighWater, Last(data).index)
              /\ epochHighWater' = Last(data).index
              /\ advances' = 0
    /\ lastOp' = "reset"
    /\ UNCHANGED <<phase, canvas, canvasWidth, probeVars>>

\* handleResize (lines 610-617), registered at line 81.  Assigning
\* canvas.width clears the bitmap before drawChart paints it again; without
\* the canvas element the handler does nothing (line 612).
HandleResize ==
    /\ phase = "running"
    /\ \E w \in OffsetWidths :
          /\ canvasWidth' = IF canvas = "missing" THEN canvasWidth ELSE w
          /\ surface' = IF canvas = "missing" THEN surface
                        ELSE drawChart(canvas, w, temperatureData, currentTemperature,
                                       BlankSurface)
    /\ lastOp' = "resize"
    /\ UNCHANGED <<phase, canvas, temperatureData, currentTemperature, chartInterval,
                   activeTimers, display, errorNotices, historyVars, probeVars>>

\* The page takes the #temperatureChart element out of the document: from
\* then on getElementById returns null (lines 259, 611).  The bitmap keeps
\* what was drawn on it.
RemoveCanvas ==
    /\ phase = "running"
    /\ canvas # "missing"
    /\ canvas' = "missing"
    /\ lastOp' = "removeCanvas"
    /\ UNCHANGED <<phase, canvasWidth, temperatureData, currentTemperature,
                   chartInterval, activeTimers, display, surface, errorNotices,
                   historyVars, probeVars>>

Next ==
    \/ InitApp
    \/ InitAppFails
    \/ DismissError
    \/ Tick
    \/ ClickStart
    \/ ClickPause
    \/ ClickReset
    \/ HandleResize

Spec == Init /\ [][Next]_vars

\* The host runs a due timer callback: the setTimeout of displayError fires
\* once its 3000 ms have passed, and a live interval keeps firing.
FairSpec == Spec /\ WF_vars(Tick)

(***************************************************************************)
(* The application on a page that removes the canvas while it runs.  The   *)
(* canvas is there when initApp runs, and the reset button is used only    *)
(* while the canvas is there.                                              *)
(***************************************************************************)
InitCanvasLoss == Init /\ canvas # "missing"

ClickResetWithCanvas == canvas # "missing" /\ ClickReset

NextCanvasLoss ==
    \/ InitApp
    \/ Tick
    \/ ClickStart
    \/ ClickPause
    \/ ClickResetWithCanvas
    \/ HandleResize
    \/ RemoveCanvas

SpecCanvasLoss == InitCanvasLoss /\ [][NextCanvasLoss]_vars

(***************************************************************************)
(* The application with drawChart also called on its own, as a caller of   *)
(* the global function does: nothing but the rendering runs.  Every        *)
(* handler that changes the buffer, the current temperature or the width   *)
(* ends with its own drawChart, so such a call is always a second call in  *)
(* a row on unchanged inputs.                                              *)
(***************************************************************************)
DrawChartCall ==
    /\ phase = "running"
    /\ surface' = drawChart(canvas, canvasWidth, temperatureData, currentTemperature,
                            surface)
    /\ lastOp' = "drawChart"
    /\ UNCHANGED <<phase, canvas, canvasWidth, temperatureData, currentTemperature,
                   chartInterval, activeTimers, display, errorNotices,
                   indexHighWater, epochHighWater, advances, probeVars>>

NextRedraw ==
    \/ InitApp
    \/ InitAppFails
    \/ DismissError
    \/ Tick
    \/ ClickStart
    \/ ClickPause
    \/ ClickReset
    \/ HandleResize
    \/ DrawChartCall

SpecRedraw == Init /\ [][NextRedraw]_vars

(***************************************************************************)
(* The classifier on its own: an input temperature is drawn and the two    *)
(* functions are applied to it.                                            *)
(***************************************************************************)
ProbeTemps ==
    {Deg(d) : d \in 0..60}
        \cup {SAFE_MAX + e : e \in (0 - 5)..5}
        \cup {DANGER_MIN + e : e \in (0 - 5)..5}

InitClassifier ==
    /\ InitApplication
    /\ probeTemp \in ProbeTemps
    /\ probeResult = NoResult

Classify ==
    /\ probeResult = NoResult
    /\ probeResult' = [color  |-> getTemperatureColor(probeTemp),
                       status |-> getTemperatureStatus(probeTemp)]
    /\ UNCHANGED <<appVars, probeTemp>>

NextClassifier == Classify

SpecClassifier == InitClassifier /\ [][NextClassifier]_vars

(***************************************************************************)
(* The coordinate mapping on its own: a temperature, a second temperature, *)
(* a width and a full buffer of consecutive indices are drawn and the two  *)
(* functions are applied to them.                                          *)
(***************************************************************************)
MappingTemps ==
    {Deg(d) : d \in {0, 10, 20, 30, 40, 50, 60}} \cup {MIN + 1, MAX - 1}

InitMapping ==
    /\ InitApplication
    /\ probeTemp \in MappingTemps
    /\ probeResult = NoResult

MapCoordinates ==
    /\ probeResult = NoResult
    /\ \E w \in OffsetWidths, temp2 \in MappingTemps,
          first \in 0..(MaxIndex - DATA_POINTS + 1), k1 \in 1..DATA_POINTS,
          k2 \in 1..DATA_POINTS :
          LET chartArea == ChartArea(w)
              data == [k \in 1..DATA_POINTS |-> Sample(first + k - 1, probeTemp)]
          IN  probeResult' =
                 [chartArea |-> chartArea,
                  temp2     |-> temp2,
                  y1        |-> tempToY(chartArea, probeTemp),
                  y2        |-> tempToY(chartArea, temp2),
                  yMin      |-> tempToY(chartArea, MIN),
                  yMax      |-> tempToY(chartArea, MAX),
                  data      |-> data,
                  index1    |-> data[k1].index,
                  index2    |-> data[k2].index,
                  x1        |-> indexToX(chartArea, data, data[k1].index),
                  x2        |-> indexToX(chartArea, data, data[k2].index),
                  xFirst    |-> indexToX(chartArea, data, data[1].index)]
    /\ UNCHANGED <<appVars, probeTemp>>

NextMapping == MapCoordinates

SpecMapping == InitMapping /\ [][NextMapping]_vars

(***************************************************************************)
(* The distribution of one advance: Math.random() is uniform on [0, 1), so *)
(* the unit square of the two draws is cut into TrialGrid x TrialGrid      *)
(* cells of equal probability, each stood for by its midpoint, and the     *)
(* cells are walked one by one from the same starting temperature.         *)
(***************************************************************************)
TrialGrid == 10

Midpoint(i) == ((2 * i + 1) * 500) \div TrialGrid

NoTrials == [trials |-> 0, lower |-> 0, higher |-> 0]

InitTrials ==
    /\ InitApplication
    /\ probeTemp = Deg(40)
    /\ probeResult = NoTrials

Trial ==
    /\ probeResult.trials < TrialGrid * TrialGrid
    /\ LET r1  == Midpoint(probeResult.trials \div TrialGrid)
           r2  == Midpoint(probeResult.trials % TrialGrid)
           out == advance(<< >>, probeTemp, r1, r2).currentTemperature
       IN  probeResult' =
              [trials |-> probeResult.trials + 1,
               lower  |-> probeResult.lower + (IF out < probeTemp THEN 1 ELSE 0),
               higher |-> probeResult.higher + (IF out > probeTemp THEN 1 ELSE 0)]
    /\ UNCHANGED <<appVars, probeTemp>>

NextTrials == Trial

SpecTrials == InitTrials /\ [][NextTrials]_vars

(***************************************************************************)
(* Properties.                                                             *)
(***************************************************************************)
Samples == {temperatureData[k] : k \in 1..Len(temperatureData)}

\* C1: every sample in the buffer has MIN <= temperature <= MAX, after
\* initialization, after any number of ticks and after resets.
C1_ClampInvariant ==
    \A s \in Samples : MIN <= s.temperature /\ s.temperature <= MAX

\* A tick whose raw value fell below MIN has appended a sample clamped to
\* MIN while a sample made by generateInitialData is still in the buffer.
C1_Witness ==
    /\ lastOp = "tick"
    /\ Last(temperatureData).temperature = MIN
    /\ temperatureData[1].index < DATA_POINTS

\* C2: the buffer never holds more than DATA_POINTS samples, and a tick on
\* a full buffer keeps the length, drops the head, keeps the other samples
\* in their order and puts the new sample at the tail.
C2_RingBuffer ==
    /\ [](Len(temperatureData) <= DATA_POINTS)
    /\ [][(lastOp' = "tick" /\ Len(temperatureData) = DATA_POINTS) =>
            /\ Len(temperatureData') = Len(temperatureData)
            /\ \A k \in 1..(DATA_POINTS - 1) :
                  temperatureData'[k] = temperatureData[k + 1]
            /\ temperatureData[1] \notin {temperatureData'[k] : k \in 1..DATA_POINTS}
            /\ Last(temperatureData').index > Last(temperatureData).index
            /\ Last(temperatureData').temperature = currentTemperature']_vars

\* A tick has evicted a sample from a full buffer.
C2_Witness ==
    /\ lastOp = "tick"
    /\ Len(temperatureData) = DATA_POINTS
    /\ temperatureData[1].index > 0

\* C3 as stated: after any operation, a failed initialization included,
\* the buffer has a last sample and currentTemperature is its temperature.
C3_Original ==
    phase # "loading" =>
        /\ Len(temperatureData) > 0
        /\ currentTemperature = Last(temperatureData).temperature

\* C3 amended: whenever the buffer holds a sample, currentTemperature is
\* the temperature of the last one, and it holds one after every operation
\* but a failed initialization, which leaves the buffer empty and
\* currentTemperature at its initial 20 degrees.
C3_CurrentIsLast ==
    /\ Len(temperatureData) > 0 =>
          currentTemperature = Last(temperatureData).temperature
    /\ phase = "running" => Len(temperatureData) > 0
    /\ phase = "failed" =>
          Len(temperatureData) = 0 /\ currentTemperature = Deg(20)

\* A tick has clamped its raw value and currentTemperature is the clamped
\* one.
C3_Witness ==
    /\ lastOp = "tick"
    /\ currentTemperature = MAX
    /\ Last(temperatureData).temperature = MAX

\* C4: at most one interval is live, chartInterval is non-null exactly
\* when one is (and is its handle), a start leaves exactly one, and a stop
\* leaves none and changes nothing when none was live.
C4_SingleTimer ==
    /\ [](/\ Cardinality(activeTimers) <= 1
          /\ chartInterval # 0 <=> activeTimers # {}
          /\ chartInterval # 0 => activeTimers = {chartInterval})
    /\ [][/\ lastOp' \in {"start", "restart", "reset", "init"} =>
                Cardinality(activeTimers') = 1
          /\ lastOp' \in {"pause", "pauseIdle"} => activeTimers' = {}
          /\ lastOp' = "pauseIdle" =>
                activeTimers' = activeTimers /\ chartInterval' = chartInterval]_vars

\* startDataUpdate has run while an interval was live, and one is live.
C4_Witness ==
    /\ lastOp = "restart"
    /\ Cardinality(activeTimers) = 1

\* The tiers of scheme A, and the tier a colour or a status text stands for.
SchemeA(t) ==
    IF t > Deg(35) THEN "danger"
    ELSE IF t >= Deg(30) THEN "warning"
    ELSE "normal"

TierOfColor(c) ==
    CASE c = COLOR_DANGER  -> "danger"
      [] c = COLOR_WARNING -> "warning"
      [] c = COLOR_NORMAL  -> "normal"
      [] OTHER             -> "none"

TierOfStatus(st) ==
    CASE st = "weixian"    -> "danger"
      [] st = "jinggao"    -> "warning"
      [] st = "zhengchang" -> "normal"
      [] OTHER             -> "none"

TierOfClass(cl) ==
    CASE cl = "status-indicator danger"  -> "danger"
      [] cl = "status-indicator warning" -> "warning"
      [] cl = "status-indicator normal"  -> "normal"
      [] OTHER                           -> "none"

Classified == probeResult # NoResult

\* C5: for every temperature, getTemperatureColor and getTemperatureStatus
\* both give danger above 35, warning from 30 to 35 and normal below 30,
\* and so agree on the tier.
C5_SchemeA ==
    Classified =>
        /\ TierOfColor(probeResult.color) = SchemeA(probeTemp)
        /\ TierOfStatus(probeResult.status) = SchemeA(probeTemp)
        /\ TierOfColor(probeResult.color) = TierOfStatus(probeResult.status)

\* The classifier has been applied to 30.0, the lower end of the warning
\* tier.
C5_Witness == Classified /\ probeTemp = SAFE_MAX

\* C6 as stated: 35.0 is danger, 34.999 warning, 30.0 warning and 29.999
\* normal, for the colour and for the status.
C6_Original ==
    Classified =>
        /\ probeTemp = Deg(35) =>
              /\ TierOfColor(probeResult.color) = "danger"
              /\ TierOfStatus(probeResult.status) = "danger"
        /\ probeTemp = Deg(35) - 1 =>
              /\ TierOfColor(probeResult.color) = "warning"
              /\ TierOfStatus(probeResult.status) = "warning"
        /\ probeTemp = Deg(30) =>
              /\ TierOfColor(probeResult.color) = "warning"
              /\ TierOfStatus(probeResult.status) = "warning"
        /\ probeTemp = Deg(30) - 1 =>
              /\ TierOfColor(probeResult.color) = "normal"
              /\ TierOfStatus(probeResult.status) = "normal"

\* C6 amended: 35.0 is warning (35.001 is the first danger value), 34.999
\* warning, 30.0 warning and 29.999 normal, for the colour and for the
\* status.
C6_Boundaries ==
    Classified =>
        /\ probeTemp = Deg(35) + 1 =>
              /\ TierOfColor(probeResult.color) = "danger"
              /\ TierOfStatus(probeResult.status) = "danger"
        /\ probeTemp \in {Deg(35), Deg(35) - 1, Deg(30)} =>
              /\ TierOfColor(probeResult.color) = "warning"
              /\ TierOfStatus(probeResult.status) = "warning"
        /\ probeTemp = Deg(30) - 1 =>
              /\ TierOfColor(probeResult.color) = "normal"
              /\ TierOfStatus(probeResult.status) = "normal"

\* The classifier has been applied to 35.0.
C6_Witness == Classified /\ probeTemp = Deg(35)

\* C7: once the display has been updated, the class of the status
\* indicator names the scheme-A tier of currentTemperature, as the colour
\* and the status text written by the same update do.
C7_IndicatorMatchesTier ==
    phase = "running" =>
        /\ TierOfClass(display.indicator.className) = SchemeA(currentTemperature)
        /\ TierOfColor(display.tempColor) = SchemeA(currentTemperature)
        /\ TierOfStatus(display.statusText) = SchemeA(currentTemperature)

IsGenerate(op) == op \in {"init", "reset"}

\* C8 as stated: every sample made by generateInitialData or by a tick
\* gets an index above every index given to any earlier sample.
C8_Original ==
    [][/\ lastOp' = "tick" =>
            Last(temperatureData').index > indexHighWater
       /\ IsGenerate(lastOp') =>
            /\ temperatureData'[1].index > indexHighWater
            /\ \A k \in 1..(Len(temperatureData') - 1) :
                  temperatureData'[k + 1].index > temperatureData'[k].index]_vars

\* C8 amended: generateInitialData (initialization and reset) numbers its
\* samples 0, 1, ... afresh, and every sample a tick makes gets an index
\* above every index given since the buffer was last generated.
C8_MonotoneSinceGenerate ==
    [][/\ lastOp' = "tick" =>
            Last(temperatureData').index > epochHighWater
       /\ IsGenerate(lastOp') =>
            /\ temperatureData'[1].index = 0
            /\ \A k \in 1..(Len(temperatureData') - 1) :
                  temperatureData'[k + 1].index > temperatureData'[k].index]_vars

\* A tick has run after a reset that followed earlier ticks: the indices
\* of this generation are below the largest index ever given.
C8_Witness ==
    /\ lastOp = "tick"
    /\ indexHighWater > epochHighWater

\* C9: the indices in the buffer go up by one from each sample to the next,
\* and after k ticks on the full buffer they are k .. k + DATA_POINTS - 1.
C9_ContiguousIndices ==
    /\ \A k \in 1..(Len(temperatureData) - 1) :
          temperatureData[k + 1].index = temperatureData[k].index + 1
    /\ Len(temperatureData) = DATA_POINTS =>
          \A k \in 1..DATA_POINTS : temperatureData[k].index = advances + k - 1

\* Every sample made by generateInitialData has been evicted.
C9_Witness ==
    /\ Len(temperatureData) = DATA_POINTS
    /\ advances > DATA_POINTS
    /\ temperatureData[1].index = advances

\* C10: right after generateInitialData (initApp, resetSimulation) the
\* buffer holds DATA_POINTS samples with the indices 0 .. DATA_POINTS - 1
\* in order, currentTemperature is the last one's temperature, and every
\* sample is one this call made: the temperatures lie within half of
\* TEMP_VARIATION of one base temperature in [20, 28).
C10_GenerateResult ==
    IsGenerate(lastOp) =>
        /\ Len(temperatureData) = DATA_POINTS
        /\ \A k \in 1..Len(temperatureData) : temperatureData[k].index = k - 1
        /\ currentTemperature = Last(temperatureData).temperature
        /\ \A s \in Samples :
              /\ s.temperature >= Deg(20) - 500 * TEMP_VARIATION
              /\ s.temperature < Deg(28) + 500 * TEMP_VARIATION
        /\ \A s1, s2 \in Samples :
              s1.temperature - s2.temperature < 1000 * TEMP_VARIATION

\* resetSimulation has run on a buffer that ticks had moved on.
C10_Witness ==
    /\ lastOp = "reset"
    /\ indexHighWater >= DATA_POINTS

\* C11: without the canvas or its 2D context drawChart draws nothing and
\* lets no exception out: the surface keeps what it showed, and a tick in
\* that state still advances the store, updates the display, puts up no
\* error notice and leaves the interval live.
C11_RenderFailure ==
    [][canvas # "ok" /\ canvas' = canvas =>
          /\ surface' = surface
          /\ lastOp' = "tick" =>
                /\ Last(temperatureData').index = Last(temperatureData).index + 1
                /\ currentTemperature' = Last(temperatureData').temperature
                /\ display' = updateTemperatureDisplay(currentTemperature')
                /\ errorNotices' = errorNotices
                /\ activeTimers' = activeTimers /\ activeTimers' # {}
                /\ chartInterval' = chartInterval
                /\ phase' = "running"]_vars

\* A tick has run after the canvas was removed: the surface still shows an
\* earlier curve, the display shows the new temperature, the interval is
\* live.
C11_Witness ==
    /\ lastOp = "tick"
    /\ canvas = "missing"
    /\ surface.painted
    /\ surface.curve # temperatureData
    /\ display.tempText = ToFixed1(currentTemperature)
    /\ display.tempText # ToFixed1(Last(surface.curve).temperature)
    /\ activeTimers # {}

\* C12: when initApp finds no canvas, one error notice is put up and its
\* timeout, pending as long as the notice shows, takes it down again; no
\* sample is generated, no interval is started, no listener is installed,
\* and nothing runs initApp again: no handler but the notice's timeout can
\* run, the buffer stays empty.
C12_InitFailure ==
    /\ [](phase = "failed" =>
            /\ temperatureData = << >>
            /\ currentTemperature = Deg(20)
            /\ chartInterval = 0 /\ activeTimers = {}
            /\ display = BlankDisplay /\ surface = BlankSurface
            /\ errorNotices = (IF lastOp = "initFailed" THEN 1 ELSE 0)
            /\ errorNotices > 0 => ENABLED DismissError
            /\ ~ ENABLED (InitApp \/ InitAppFails \/ Tick \/ ClickStart
                            \/ ClickPause \/ ClickReset \/ HandleResize))
    /\ [][canvas = "missing" /\ phase = "loading" =>
            phase' = "failed" /\ errorNotices' = 1]_vars
    /\ [][phase = "failed" => phase' = "failed" /\ errorNotices' < errorNotices]_vars

\* The failed start is over: the notice has been taken down.
C12_Witness ==
    /\ phase = "failed"
    /\ lastOp = "dismiss"
    /\ errorNotices = 0

(***************************************************************************)
(* C13  Rendering is idempotent: a drawChart call that follows a drawChart *)
(* call on the same buffer, current temperature and width leaves the same  *)
(* picture, no context setting left by the earlier call (line cap, line    *)
(* join, line width, font, alignment, fill and stroke style) having any    *)
(* influence; and drawChart leaves the buffer, the current temperature and *)
(* the timer handle as they are.                                           *)
(* The code does not do this: drawTemperatureCurve leaves lineCap 'round'  *)
(* (line 443) and neither drawGrid nor drawAxes sets lineCap, so the first *)
(* picture after the canvas was given its width has grid and axis lines    *)
(* with butt caps and the next one has them with round caps.               *)
(***************************************************************************)
Picture(s) == [painted |-> s.painted, width |-> s.width, curve |-> s.curve,
               strokeColor |-> s.strokeColor, layers |-> s.layers]

C13_RenderIdempotence ==
    [][lastOp' = "drawChart" =>
          /\ Picture(surface') = Picture(surface)
          /\ UNCHANGED <<temperatureData, currentTemperature, chartInterval,
                         activeTimers>>]_vars

(***************************************************************************)
(* C14  For a plot rectangle of positive width and height, tempToY maps    *)
(* MIN to the bottom of the rectangle (chartArea.y + chartArea.height) and *)
(* MAX to its top (chartArea.y) and is strictly decreasing in the          *)
(* temperature; indexToX is strictly increasing in the index and maps the  *)
(* first buffered index to chartArea.x.                                    *)
(***************************************************************************)
C14_CoordinateMapping ==
    probeResult # NoResult =>
       LET r == probeResult
           a == r.chartArea
       IN  a.width > 0 /\ a.height > 0 =>
              /\ r.yMin = YUnits(a.y + a.height)
              /\ r.yMax = YUnits(a.y)
              /\ probeTemp < r.temp2 => r.y1 > r.y2
              /\ r.index1 < r.index2 => r.x1 < r.x2
              /\ r.xFirst = XUnits(r.data, a.x)

C14_Witness ==
    /\ probeResult # NoResult
    /\ probeResult.chartArea.width > 0 /\ probeResult.chartArea.height > 0
    /\ probeTemp < probeResult.temp2
    /\ probeResult.y1 > probeResult.y2
    /\ probeResult.index1 < probeResult.index2
    /\ probeResult.data[1].index > 0
    /\ probeResult.xFirst = XUnits(probeResult.data, PADDING_LEFT)

(***************************************************************************)
(* C15  Starting from currentTemperature = 40, an advance gives a value    *)
(* strictly lower than 40 in more than 55% of the cases: over all equally  *)
(* likely outcomes of the two draws, the share of lower outputs is above   *)
(* 55/100 (the cooling branch has weight 0.7, the symmetric one 0.3).      *)
(***************************************************************************)
C15_MeanReversion ==
    probeResult \in [trials : {TrialGrid * TrialGrid}, lower : Nat, higher : Nat] =>
        probeResult.lower * 100 > 55 * probeResult.trials

C15_Witness ==
    /\ probeResult \in [trials : {TrialGrid * TrialGrid}, lower : Nat, higher : Nat]
    /\ probeTemp = Deg(40)
    /\ probeResult.higher > 0
    /\ probeResult.lower * 100 > 55 * probeResult.trials
    /\ probeResult.lower * 100 < 90 * probeResult.trials

(***************************************************************************)
(* C16  A tick from the current temperature c appends a sample whose       *)
(* temperature t depends on the regime: when c > 35, t lies between        *)
(* clamp(c - 10) and clamp(c + 5); otherwise (c <= 35, 35 itself included) *)
(* t lies between clamp(c - 10) and clamp(c + 10).                         *)
(***************************************************************************)
C16_StepBounds ==
    [][lastOp' = "tick" =>
          LET c == currentTemperature
              t == Last(temperatureData').temperature
          IN  IF c > Deg(35)
              THEN Clamp(c - Deg(10)) <= t /\ t <= Clamp(c + Deg(5))
              ELSE Clamp(c - Deg(10)) <= t /\ t <= Clamp(c + Deg(10))]_vars

\* A tick in the elevated regime has gone up, by less than 5 degrees and
\* short of MAX.
C16_Witness ==
    /\ lastOp = "tick"
    /\ Len(temperatureData) >= 2
    /\ LET c == temperatureData[Len(temperatureData) - 1].temperature
           t == Last(temperatureData).temperature
       IN  /\ advances >= 2
           /\ c > Deg(35)
           /\ t > c
           /\ t < MAX

(***************************************************************************)
(* C17  A tick is one unit: it advances the store, then renders, then      *)
(* updates the display.  The render and the display update see the store   *)
(* after the advance (at most DATA_POINTS samples, currentTemperature the  *)
(* temperature of the last sample), so after a tick the curve drawn is the *)
(* new buffer and the displayed value and colour are those of the sample   *)
(* the tick appended; and no handler ever finds a store that the picture   *)
(* and the display have not caught up with.                                *)
(***************************************************************************)
C17_TickOrder ==
    /\ [][lastOp' = "tick" =>
             LET appended == Last(temperatureData')
             IN  /\ appended.index = nextIndex(temperatureData)
                 /\ Len(temperatureData') <= DATA_POINTS
                 /\ currentTemperature' = appended.temperature
                 /\ canvas = "ok" =>
                       /\ surface'.curve = temperatureData'
                       /\ surface'.strokeColor = getTemperatureColor(appended.temperature)
                 /\ display'.tempText = ToFixed1(appended.temperature)
                 /\ display'.tempColor = getTemperatureColor(appended.temperature)]_vars
    /\ [](phase = "running" =>
             /\ canvas = "ok" => surface.curve = temperatureData
             /\ display.tempText = ToFixed1(currentTemperature)
             /\ display.tempColor = getTemperatureColor(currentTemperature))

\* A tick on a full buffer has appended a sample whose value and colour
\* differ from those of the sample before it, and both are on display.
C17_Witness ==
    /\ lastOp = "tick"
    /\ canvas = "ok"
    /\ advances >= DATA_POINTS
    /\ LET appended == Last(temperatureData)
           before   == temperatureData[Len(temperatureData) - 1]
       IN  /\ ToFixed1(appended.temperature) # ToFixed1(before.temperature)
           /\ getTemperatureColor(appended.temperature)
                 # getTemperatureColor(before.temperature)
           /\ display.tempText = ToFixed1(appended.temperature)
           /\ display.tempColor = getTemperatureColor(appended.temperature)
           /\ surface.curve = temperatureData

(***************************************************************************)
(* C18  Whenever the curve is rendered, indexRange = max(last index -      *)
(* first index, DATA_POINTS - 1) is DATA_POINTS - 1 and, for a plot        *)
(* rectangle of positive width and height, every buffered sample maps      *)
(* into the rectangle: chartArea.x <= indexToX(index) <= chartArea.x +     *)
(* chartArea.width and chartArea.y <= tempToY(temperature) <= chartArea.y  *)
(* + chartArea.height; the last sample is at the right edge exactly when   *)
(* the buffer is full.                                                     *)
(***************************************************************************)
C18_CurveInsidePlot ==
    surface.curve # << >> =>
       LET data == surface.curve
           a    == ChartArea(surface.width)
       IN  /\ indexRange(data) = DATA_POINTS - 1
           /\ a.width > 0 /\ a.height > 0 =>
                 /\ \A k \in 1..Len(data) :
                       /\ XUnits(data, a.x) <= indexToX(a, data, data[k].index)
                       /\ indexToX(a, data, data[k].index) <= XUnits(data, a.x + a.width)
                       /\ YUnits(a.y) <= tempToY(a, data[k].temperature)
                       /\ tempToY(a, data[k].temperature) <= YUnits(a.y + a.height)
                 /\ indexToX(a, data, Last(data).index) = XUnits(data, a.x + a.width)
                       <=> Len(data) = DATA_POINTS

\* A curve drawn after evictions, with a sample on the bottom edge of the
\* plot rectangle and the last sample on its right edge.
C18_Witness ==
    /\ surface.curve # << >>
    /\ surface.curve = temperatureData
    /\ surface.curve[1].index > 0
    /\ ChartArea(surface.width).width > 0
    /\ \E k \in 1..Len(surface.curve) : surface.curve[k].temperature = MIN
    /\ indexToX(ChartArea(surface.width), surface.curve, Last(surface.curve).index)
          = XUnits(surface.curve, PADDING_LEFT + ChartArea(surface.width).width)

(***************************************************************************)
(* C19  Pause freezes the store: once stopDataUpdate has completed (the    *)
(* handle is null) no tick can fire, and no handler other than a start or  *)
(* a reset changes the buffer or currentTemperature, renders and resizes   *)
(* included.  Conversely, a tick fires only from an active interval and   *)
(* appends the sample with the next index, and while an interval is active *)
(* and the host runs due callbacks a tick keeps occurring: the interval    *)
(* never stays active for ever with the number of ticks since the buffer   *)
(* was filled staying even, or staying odd (as far as the index bound of   *)
(* the model lets ticks go on).                                            *)
(***************************************************************************)
Paused == phase = "running" /\ chartInterval = 0

C19_PauseFreezes ==
    /\ [](Paused => activeTimers = {} /\ ~ ENABLED Tick)
    /\ [][Paused /\ lastOp' \notin {"start", "reset"} =>
             /\ lastOp' # "tick"
             /\ temperatureData' = temperatureData
             /\ currentTemperature' = currentTemperature]_vars
    /\ [][lastOp' = "tick" =>
             /\ activeTimers # {}
             /\ Last(temperatureData').index = nextIndex(temperatureData)]_vars
    /\ \A parity \in {0, 1} :
          []<>(\/ advances % 2 = parity
               \/ activeTimers = {}
               \/ nextIndex(temperatureData) > MaxIndex)

\* A resize has redrawn the paused store after ticks; the picture shows
\* the frozen buffer.
C19_Witness ==
    /\ Paused
    /\ lastOp = "resize"
    /\ advances > 0
    /\ activeTimers = {}
    /\ surface.curve = temperatureData

=============================================================================
